---- MODULE Spec2Model ----
(***************************************************************************)
(* Model of src/main.py: the thermal-to-fan-speed control loop of the      *)
(* SR655 fan controller.  Temperatures are modelled as integers (degrees   *)
(* Celsius); the interpolation of calculate_speed is computed in exact     *)
(* rational arithmetic with Python's round-half-to-even.                   *)
(***************************************************************************)
EXTENDS Integers, Sequences, FiniteSets, TLC

VARIABLES
    SPEED_CURVE,    \* configuration: sequence of <<temperature, percentage>>
    FAN_CONFIG,     \* configuration: sequence of <<fan_id, <<sensor names>>>>
    pc,             \* position of main_loop
    sensor_data,    \* main_loop's local sensor_data (startup snapshot)
    current_temps,  \* main_loop's local current_temps
    fan_idx,        \* position of the for loop over FAN_CONFIG.items()
    exc,            \* the exception last caught by (or propagated out of) main_loop
    out,            \* the kind of the last message main_loop printed
    calls,          \* set_fan_speed invocations of the current cycle, in order
    ever_called,    \* set_fan_speed was invoked at some point of the run
    loop_entered,   \* the while loop has started an iteration
    reads,          \* Sensor Reader invocations since the cycle began (startup: since start)
    sleeps,         \* time.sleep calls completed since the last sensor read
    extraction,     \* line 167 in the current cycle: "pending", "ok" or "failed"
    recovering,     \* the previous cycle ended in the loop-level handler
    snapshot,       \* what get_sensor_data() returned at line 167 in the current cycle
    temp,           \* evaluator harness: the temperature under evaluation
    result          \* evaluator harness: what calculate_speed returned

vars == <<SPEED_CURVE, FAN_CONFIG, pc, sensor_data, current_temps, fan_idx, exc,
          out, calls, ever_called, loop_entered, reads, sleeps, extraction, recovering,
          snapshot, temp, result>>

-----------------------------------------------------------------------------
(* Bounds of the model *)

\* at most this many mapped sensors have a broken path in one snapshot
MaxMissing == 1

\* the evaluator harness draws temperatures from 0..MaxTemp
MaxTemp == 110

-----------------------------------------------------------------------------
(* Configuration (src/main.py lines 13-46) *)

SENSOR_MAPPING ==
    << <<"cpu",   <<"k10temp-pci-00c3", "Tctl",      "temp1_input">> >>,
       <<"gpu0",  <<"amdgpu-pci-0300",  "junction",  "temp2_input">> >>,
       <<"gpu1",  <<"amdgpu-pci-8300",  "junction",  "temp2_input">> >>,
       <<"nvme1", <<"nvme-pci-4200",    "Composite", "temp1_input">> >>,
       <<"nvme2", <<"nvme-pci-4100",    "Composite", "temp1_input">> >> >>

SensorNames == {SENSOR_MAPPING[i][1] : i \in 1..Len(SENSOR_MAPPING)}

\* SENSOR_MAPPING[name]
Mapping(name) ==
    LET i == CHOOSE j \in 1..Len(SENSOR_MAPPING) : SENSOR_MAPPING[j][1] = name
    IN  SENSOR_MAPPING[i][2]

ShippedFanConfig ==
    << <<1, <<"gpu0">> >>,
       <<2, <<"gpu0", "gpu1">> >>,
       <<3, <<"gpu1">> >>,
       <<4, <<"gpu1", "cpu">> >>,
       <<5, <<"cpu">> >>,
       <<6, <<"cpu">> >> >>

\* an edit of the user configuration area: fan 6 tracks a name SENSOR_MAPPING lacks
UndefinedSensorFanConfig ==
    << <<1, <<"gpu0">> >>,
       <<2, <<"gpu0", "gpu1">> >>,
       <<3, <<"gpu1">> >>,
       <<4, <<"gpu1", "cpu">> >>,
       <<5, <<"cpu">> >>,
       <<6, <<"cpu", "gpu2">> >> >>

FanConfigs == {ShippedFanConfig, UndefinedSensorFanConfig}

ShippedCurve ==
    << <<40, 5>>, <<50, 8>>, <<60, 15>>, <<70, 40>>, <<80, 50>>, <<90, 60>>, <<95, 100>> >>

\* edits of the user configuration area whose percentages leave [0,100]
HighCurve == << <<40, 5>>, <<90, 120>>, <<95, 100>> >>
LowCurve  == << <<40, -5>>, <<90, 60>>, <<95, 100>> >>

-----------------------------------------------------------------------------
(* calculate_speed (src/main.py lines 85-102) *)

\* insert point p into the temperature-sorted sequence s, after the points
\* whose temperature is <= p's (sorted() is stable)
RECURSIVE InsertByTemp(_, _)
InsertByTemp(p, s) ==
    IF s = <<>> THEN <<p>>
    ELSE IF s[Len(s)][1] <= p[1] THEN Append(s, p)
    ELSE Append(InsertByTemp(p, SubSeq(s, 1, Len(s) - 1)), s[Len(s)])

\* mutant of SortedByTemp: the curve is used in the order SPEED_CURVE lists it
UnsortedCurve(curve) == curve

\* sorted(SPEED_CURVE, key=lambda x: x[0])
RECURSIVE SortedByTemp(_)
SortedByTemp(curve) ==
    IF curve = <<>> THEN <<>>
    ELSE InsertByTemp(curve[Len(curve)], SortedByTemp(SubSeq(curve, 1, Len(curve) - 1)))

\* mutant of RoundHalfEven: exact ties round up, as Python 2's round did for
\* positive numbers
RoundHalfUp(n, d) ==
    LET q == n \div d
        r == n % d
    IN  IF 2 * r < d THEN q ELSE q + 1

\* int(round(n / d)) for d > 0: Python 3 rounds exact ties to the even integer
RoundHalfEven(n, d) ==
    LET q == n \div d
        r == n % d
    IN  IF 2 * r < d THEN q
        ELSE IF 2 * r > d THEN q + 1
        ELSE IF q % 2 = 0 THEN q ELSE q + 1

Returned(v) == [raised |-> "none", value |-> v]
Raised(e)   == [raised |-> e, value |-> 0]

\* mutant of CalculateOver: the two boundary returns are missing, and the first
\* and the last segment are extended beyond the end points
ExtrapolatingCalculate(t, curve) ==
    LET sorted_curve == SortedByTemp(curve)
        n == Len(sorted_curve)
    IN  IF n = 0 THEN Raised("IndexError")
        ELSE IF n = 1 THEN Returned(sorted_curve[1][2])
        ELSE LET i  == IF t <= sorted_curve[1][1] THEN 2
                       ELSE IF t >= sorted_curve[n][1] THEN n
                       ELSE CHOOSE j \in 2..n :
                               /\ sorted_curve[j-1][1] <= t /\ t <= sorted_curve[j][1]
                               /\ \A k \in 2..(j-1) :
                                     ~(sorted_curve[k-1][1] <= t /\ t <= sorted_curve[k][1])
                 t0 == sorted_curve[i-1][1]
                 s0 == sorted_curve[i-1][2]
                 t1 == sorted_curve[i][1]
                 s1 == sorted_curve[i][2]
             IN  IF t1 = t0 THEN Raised("ZeroDivisionError")
                 ELSE Returned(RoundHalfEven(s0 * (t1 - t0) + (t - t0) * (s1 - s0), t1 - t0))

\* the value calculate_speed(temp) returns over curve, or the exception it raises
CalculateOver(t, curve) ==
    LET sorted_curve == SortedByTemp(curve)
        n == Len(sorted_curve)
    IN  IF n = 0 THEN Raised("IndexError")
        ELSE IF t <= sorted_curve[1][1] THEN Returned(sorted_curve[1][2])
        ELSE IF t >= sorted_curve[n][1] THEN Returned(sorted_curve[n][2])
        ELSE LET i  == CHOOSE j \in 2..n :
                          /\ sorted_curve[j-1][1] <= t /\ t <= sorted_curve[j][1]
                          /\ \A k \in 2..(j-1) :
                                ~(sorted_curve[k-1][1] <= t /\ t <= sorted_curve[k][1])
                 t0 == sorted_curve[i-1][1]
                 s0 == sorted_curve[i-1][2]
                 t1 == sorted_curve[i][1]
                 s1 == sorted_curve[i][2]
             IN  IF t1 = t0 THEN Raised("ZeroDivisionError")
                 ELSE Returned(RoundHalfEven(s0 * (t1 - t0) + (t - t0) * (s1 - s0), t1 - t0))

calculate_speed(t) == CalculateOver(t, SPEED_CURVE)

-----------------------------------------------------------------------------
(* Exceptions and messages *)

\* an exception with what its message identifies
Exc(type, fan, sensor, missing) ==
    [type |-> type, fan |-> fan, sensor |-> sensor, missing |-> missing]

NoExc == Exc("none", 0, "", "")

-----------------------------------------------------------------------------
(* The Sensor Reader boundary: what `sensors -j` can answer *)

\* the readings drawn for a sensor some fan of the shipped FAN_CONFIG tracks;
\* the sensors no fan tracks (nvme1, nvme2) read IdleTemp in every snapshot
Temps == {30, 90}
IdleTemp == 35

TrackedSensors ==
    UNION { {ShippedFanConfig[i][2][k] : k \in 1..Len(ShippedFanConfig[i][2])} :
            i \in 1..Len(ShippedFanConfig) }

Readings(s) == IF s \in TrackedSensors THEN Temps ELSE {IdleTemp}

NoData == << >>

\* the logical sensor whose chip is c (the chips of SENSOR_MAPPING are distinct)
SensorOfChip(c) == CHOOSE s \in SensorNames : Mapping(s)[1] = c

\* the nested mapping chip -> feature group -> field -> reading in which the
\* sensors of M lack a level of their path (lv[s] = 0: the chip, 1: the feature
\* group, 2: the field) and every other mapped sensor s reads v[s]
MkData(M, lv, v) ==
    [c \in {Mapping(s)[1] : s \in {x \in SensorNames : x \notin M \/ lv[x] >= 1}} |->
        LET s == SensorOfChip(c)
        IN  [f \in (IF s \notin M \/ lv[s] >= 2 THEN {Mapping(s)[2]} ELSE {}) |->
                [fld \in (IF s \notin M THEN {Mapping(s)[3]} ELSE {}) |-> v[s]]]]

Snapshots ==
    UNION { UNION { { MkData(M, lv, v) :
                        v \in {w \in [SensorNames \ M -> Temps \cup {IdleTemp}] :
                                  \A s \in SensorNames \ M : w[s] \in Readings(s)} }
                    : lv \in [M -> 0..2] }
            : M \in {X \in SUBSET SensorNames : Cardinality(X) <= MaxMissing} }

\* how the `sensors -j` subprocess can end
ReaderFailures == {"CalledProcessError", "JSONDecodeError", "FileNotFoundError"}

\* get_sensor_data (src/main.py lines 56-63): the exception it raises when the
\* subprocess ends with failure f
get_sensor_data_raises(f) ==
    IF f \in {"CalledProcessError", "JSONDecodeError"}
    THEN Exc("RuntimeError", 0, "", "")
    ELSE Exc(f, 0, "", "")

-----------------------------------------------------------------------------
(* parse_temperatures (src/main.py lines 65-83) *)

RECURSIVE ParseFrom(_, _, _)
ParseFrom(data, i, temps) ==
    IF i > Len(SENSOR_MAPPING) THEN [raised |-> NoExc, temps |-> temps]
    ELSE LET name    == SENSOR_MAPPING[i][1]
             chip    == SENSOR_MAPPING[i][2][1]
             feature == SENSOR_MAPPING[i][2][2]
             field   == SENSOR_MAPPING[i][2][3]
         IN  IF chip \notin DOMAIN data
             THEN [raised |-> Exc("ConfigError", 0, name, "chip"), temps |-> temps]
             ELSE IF feature \notin DOMAIN data[chip]
             THEN [raised |-> Exc("ConfigError", 0, name, "feature"), temps |-> temps]
             ELSE IF field \notin DOMAIN data[chip][feature]
             THEN [raised |-> Exc("ConfigError", 0, name, "field"), temps |-> temps]
             ELSE ParseFrom(data, i + 1, temps @@ (name :> data[chip][feature][field]))

\* mutant of parse_temperatures: the message always blames the chip
parse_temperatures_blames_chip(data) ==
    LET parsed == ParseFrom(data, 1, << >>)
    IN  IF parsed.raised = NoExc THEN parsed
        ELSE [raised |-> Exc("ConfigError", 0, parsed.raised.sensor, "chip"),
              temps |-> parsed.temps]

\* mutant of parse_temperatures: the reading is looked up by feature group and
\* field in the first mapped chip that has them
parse_temperatures_by_feature(data) ==
    LET parsed == ParseFrom(data, 1, << >>)
        First(name) ==
            CHOOSE j \in 1..Len(SENSOR_MAPPING) :
                /\ SENSOR_MAPPING[j][2][2] = Mapping(name)[2]
                /\ SENSOR_MAPPING[j][2][3] = Mapping(name)[3]
                /\ \A k \in 1..(j - 1) :
                      \/ SENSOR_MAPPING[k][2][2] # Mapping(name)[2]
                      \/ SENSOR_MAPPING[k][2][3] # Mapping(name)[3]
    IN  IF parsed.raised # NoExc THEN parsed
        ELSE [raised |-> NoExc,
              temps |-> [name \in DOMAIN parsed.temps |->
                            parsed.temps[SENSOR_MAPPING[First(name)][1]]]]

\* mutant of parse_temperatures: a sensor whose path is missing is left out of
\* the sample
parse_temperatures_skips_missing(data) ==
    [raised |-> NoExc,
     temps |-> [name \in {s \in SensorNames :
                            /\ Mapping(s)[1] \in DOMAIN data
                            /\ Mapping(s)[2] \in DOMAIN data[Mapping(s)[1]]
                            /\ Mapping(s)[3] \in DOMAIN data[Mapping(s)[1]][Mapping(s)[2]]} |->
                   data[Mapping(name)[1]][Mapping(name)[2]][Mapping(name)[3]]]]

parse_temperatures(data) == ParseFrom(data, 1, << >>)

-----------------------------------------------------------------------------
(* validate_config (src/main.py lines 133-152) *)

\* the <<fan_id, sensor>> pairs in the order the nested for loops visit them
RECURSIVE FanSensorPairs(_, _, _)
FanSensorPairs(cfg, i, j) ==
    IF i > Len(cfg) THEN << >>
    ELSE IF j > Len(cfg[i][2]) THEN FanSensorPairs(cfg, i + 1, 1)
    ELSE << <<cfg[i][1], cfg[i][2][j]>> >> \o FanSensorPairs(cfg, i, j + 1)

\* the first pair of the visit whose sensor is not in known, as a ConfigError
FirstUnknown(pairs, known) ==
    IF \A k \in 1..Len(pairs) : pairs[k][2] \in known THEN NoExc
    ELSE LET k == CHOOSE x \in 1..Len(pairs) :
                      /\ pairs[x][2] \notin known
                      /\ \A y \in 1..(x - 1) : pairs[y][2] \in known
         IN  Exc("ConfigError", pairs[k][1], pairs[k][2], "")

\* mutant of validate_config: the check against the live sample is left out
validate_config_names_only(data) ==
    FirstUnknown(FanSensorPairs(FAN_CONFIG, 1, 1), SensorNames)

\* mutant of validate_config: the live sample is extracted before the names of
\* FAN_CONFIG are checked
validate_config_parse_first(data) ==
    LET pairs == FanSensorPairs(FAN_CONFIG, 1, 1)
        parsed == parse_temperatures(data)
    IN  IF parsed.raised # NoExc THEN parsed.raised
        ELSE IF FirstUnknown(pairs, SensorNames) # NoExc
        THEN FirstUnknown(pairs, SensorNames)
        ELSE FirstUnknown(pairs, DOMAIN parsed.temps)

\* the exception validate_config(data) raises, NoExc when it returns
validate_config(data) ==
    LET pairs == FanSensorPairs(FAN_CONFIG, 1, 1)
        undefined == FirstUnknown(pairs, SensorNames)
    IN  IF undefined # NoExc THEN undefined
        ELSE LET parsed == parse_temperatures(data)
             IN  IF parsed.raised # NoExc THEN parsed.raised
                 ELSE FirstUnknown(pairs, DOMAIN parsed.temps)

-----------------------------------------------------------------------------
(* set_fan_speed (src/main.py lines 104-131) *)

\* f"0x{n:02x}": the two hexadecimal digits of n (n < 256)
Hex2(n) == <<n \div 16, n % 16>>

\* the number a two-digit hexadecimal argument denotes
HexValue(h) == 16 * h[1] + h[2]

NoCmd == << >>

\* how the ipmitool subprocess can end: exit status 0, a non-zero exit status
\* with text on stderr, a non-zero exit status with nothing on stderr
ActuatorOutcomes == {"ok", "fail_stderr", "fail_silent"}

\* mutant of set_fan_speed: an out-of-range percentage is clamped and sent
set_fan_speed_clamped(fan_id, speed_pct, rc) ==
    LET clamped == IF speed_pct < 0 THEN 0 ELSE IF speed_pct > 100 THEN 100 ELSE speed_pct
    IN  [fan |-> fan_id, pct |-> speed_pct,
         cmd |-> [fan_id |-> Hex2(fan_id), speed |-> Hex2(clamped)], rc |-> rc,
         printed |-> IF rc = "ok" THEN "fan_line" ELSE "none",
         raised |-> IF rc = "ok" THEN "none"
                    ELSE IF rc = "fail_stderr" THEN "NameError" ELSE "UnboundLocalError"]

\* one invocation set_fan_speed(fan_id, speed_pct) whose subprocess ends with rc:
\* the command it ran, what it printed and the exception it raised
set_fan_speed(fan_id, speed_pct, rc) ==
    IF ~(0 <= speed_pct /\ speed_pct <= 100)
    THEN [fan |-> fan_id, pct |-> speed_pct, cmd |-> NoCmd, rc |-> "not_run",
          printed |-> "none", raised |-> "ValueError"]
    ELSE LET cmd == [fan_id |-> Hex2(fan_id), speed |-> Hex2(speed_pct)]
         IN  IF rc = "ok"
             THEN [fan |-> fan_id, pct |-> speed_pct, cmd |-> cmd, rc |-> rc,
                   printed |-> "fan_line", raised |-> "none"]
             ELSE IF rc = "fail_stderr"
             \* error_msg is e.stderr; the f-string then reads the undefined name timestamp
             THEN [fan |-> fan_id, pct |-> speed_pct, cmd |-> cmd, rc |-> rc,
                   printed |-> "none", raised |-> "NameError"]
             \* e.stderr.strip() is empty: result was never bound
             ELSE [fan |-> fan_id, pct |-> speed_pct, cmd |-> cmd, rc |-> rc,
                   printed |-> "none", raised |-> "UnboundLocalError"]

-----------------------------------------------------------------------------
(* main_loop (src/main.py lines 154-186) *)

\* mutant of PyMax: the smallest reading is taken
RECURSIVE PyMin(_)
PyMin(list) ==
    IF Len(list) = 1 THEN list[1]
    ELSE LET m == PyMin(SubSeq(list, 1, Len(list) - 1))
         IN  IF list[Len(list)] < m THEN list[Len(list)] ELSE m

\* max(relevant_temps) of a non-empty list
RECURSIVE PyMax(_)
PyMax(list) ==
    IF Len(list) = 1 THEN list[1]
    ELSE LET m == PyMax(SubSeq(list, 1, Len(list) - 1))
         IN  IF list[Len(list)] > m THEN list[Len(list)] ELSE m

\* lines 174-175 for the fan at position i: target_speed or the exception raised
TargetSpeed(i) ==
    LET sensors == FAN_CONFIG[i][2]
    IN  IF \E k \in 1..Len(sensors) : sensors[k] \notin DOMAIN current_temps
        THEN Raised("KeyError")
        ELSE IF Len(sensors) = 0 THEN Raised("ValueError")
        ELSE calculate_speed(PyMax([k \in 1..Len(sensors) |-> current_temps[sensors[k]]]))

Terminal == {"returned_invalid", "terminated", "uncaught"}

NotEvaluated == [raised |-> "not_evaluated", value |-> 0]

MainCurves == {ShippedCurve, HighCurve, LowCurve, << >>}

Init ==
    /\ SPEED_CURVE \in MainCurves
    /\ FAN_CONFIG \in FanConfigs
    /\ pc = "start"
    /\ sensor_data = NoData
    /\ current_temps = << >>
    /\ fan_idx = 0
    /\ exc = NoExc
    /\ out = "none"
    /\ calls = << >>
    /\ ever_called = FALSE
    /\ loop_entered = FALSE
    /\ reads = 0
    /\ sleeps = 0
    /\ extraction = "pending"
    /\ recovering = FALSE
    /\ snapshot = NoData
    /\ temp = 0
    /\ result = NotEvaluated

\* lines 160-163: the startup handler prints the failure and returns
StartupFails(e) ==
    /\ exc' = e
    /\ out' = "config_failed"
    /\ pc' = "returned_invalid"

\* line 158, the Sensor Reader answering
StartupRead ==
    /\ pc = "start"
    /\ reads' = reads + 1
    /\ \E data \in Snapshots :
          /\ sensor_data' = data
          /\ pc' = "validate"
    /\ UNCHANGED <<SPEED_CURVE, FAN_CONFIG, current_temps, fan_idx, exc, out, calls,
                   ever_called, loop_entered, sleeps, extraction, recovering, snapshot, temp, result>>

\* line 158, the Sensor Reader failing
StartupReadFails ==
    /\ pc = "start"
    /\ reads' = reads + 1
    /\ \E f \in ReaderFailures : StartupFails(get_sensor_data_raises(f))
    /\ UNCHANGED <<SPEED_CURVE, FAN_CONFIG, sensor_data, current_temps, fan_idx, calls,
                   ever_called, loop_entered, sleeps, extraction, recovering, snapshot, temp, result>>

\* line 159 and, when it returns, the entry into the while loop at line 165
Validate ==
    /\ pc = "validate"
    /\ LET e == validate_config(sensor_data)
       IN  IF e # NoExc
           THEN /\ StartupFails(e)
                /\ UNCHANGED <<loop_entered, reads>>
           ELSE /\ pc' = "cycle_read"
                /\ loop_entered' = TRUE
                /\ reads' = 0
                /\ UNCHANGED <<exc, out>>
    /\ UNCHANGED <<SPEED_CURVE, FAN_CONFIG, sensor_data, current_temps, fan_idx, calls,
                   ever_called, sleeps, extraction, recovering, snapshot, temp, result>>

\* mutant of CycleFails: no loop-level handler, the error leaves main_loop
CycleFailsFatal(e) ==
    /\ exc' = e
    /\ out' = "runtime_error"
    /\ pc' = "uncaught"

\* lines 184-186 up to the call of time.sleep: the loop-level handler
CycleFails(e) ==
    /\ exc' = e
    /\ out' = "runtime_error"
    /\ pc' = "err_sleep"

\* mutant of CycleRead: a failed extraction is reported, and the for loop runs
\* all the same on the readings current_temps still holds
CycleReadKeepsGoing ==
    /\ pc = "cycle_read"
    /\ reads' = reads + 1
    /\ sleeps' = 0
    /\ \E data \in Snapshots :
          LET parsed == parse_temperatures(data)
          IN  /\ snapshot' = data
              /\ fan_idx' = 1
              /\ pc' = "fans"
              /\ IF parsed.raised # NoExc
                 THEN /\ exc' = parsed.raised
                      /\ out' = "runtime_error"
                      /\ extraction' = "failed"
                      /\ UNCHANGED current_temps
                 ELSE /\ current_temps' = parsed.temps
                      /\ extraction' = "ok"
                      /\ out' = "timestamp"
                      /\ UNCHANGED exc
    /\ UNCHANGED <<SPEED_CURVE, FAN_CONFIG, sensor_data, calls, ever_called,
                   loop_entered, recovering, temp, result>>

\* mutant of CycleRead: the snapshot of the startup validation is extracted
\* instead of the one just read
CycleReadUsesStartupData ==
    /\ pc = "cycle_read"
    /\ reads' = reads + 1
    /\ sleeps' = 0
    /\ \E data \in Snapshots :
          LET parsed == parse_temperatures(sensor_data)
          IN  /\ snapshot' = data
              /\ current_temps' = parsed.temps
              /\ extraction' = "ok"
              /\ fan_idx' = 1
              /\ out' = "timestamp"
              /\ pc' = "fans"
              /\ UNCHANGED exc
    /\ UNCHANGED <<SPEED_CURVE, FAN_CONFIG, sensor_data, calls, ever_called,
                   loop_entered, recovering, temp, result>>

\* line 167 with the Sensor Reader answering, and lines 170-171
CycleRead ==
    /\ pc = "cycle_read"
    /\ reads' = reads + 1
    /\ sleeps' = 0
    /\ \E data \in Snapshots :
          LET parsed == parse_temperatures(data)
          IN  /\ snapshot' = data
              /\ IF parsed.raised # NoExc
                 THEN /\ CycleFails(parsed.raised)
                      /\ extraction' = "failed"
                      /\ UNCHANGED <<current_temps, fan_idx>>
                 ELSE /\ current_temps' = parsed.temps
                      /\ extraction' = "ok"
                      /\ fan_idx' = 1
                      /\ out' = "timestamp"
                      /\ pc' = IF Len(FAN_CONFIG) = 0 THEN "sleep" ELSE "fans"
                      /\ UNCHANGED exc
    /\ UNCHANGED <<SPEED_CURVE, FAN_CONFIG, sensor_data, calls, ever_called,
                   loop_entered, recovering, temp, result>>

\* line 167 with the Sensor Reader failing
CycleReadFails ==
    /\ pc = "cycle_read"
    /\ reads' = reads + 1
    /\ sleeps' = 0
    /\ \E f \in ReaderFailures : CycleFails(get_sensor_data_raises(f))
    /\ extraction' = "failed"
    /\ UNCHANGED <<SPEED_CURVE, FAN_CONFIG, sensor_data, current_temps, fan_idx, calls,
                   ever_called, loop_entered, recovering, snapshot, temp, result>>

\* mutant of FanStep: an exception of set_fan_speed is caught per fan, and the
\* for loop goes on to the next fan
FanStepPerFanCatch ==
    /\ pc = "fans"
    /\ LET target == TargetSpeed(fan_idx)
       IN  IF target.raised # "none"
           THEN /\ exc' = Exc(target.raised, 0, "", "")
                /\ out' = "runtime_error"
                /\ pc' = "err_sleep"
                /\ UNCHANGED <<calls, ever_called, fan_idx>>
           ELSE \E rc \in ActuatorOutcomes :
                  LET call == set_fan_speed(FAN_CONFIG[fan_idx][1], target.value, rc)
                  IN  /\ calls' = Append(calls, call)
                      /\ ever_called' = TRUE
                      /\ fan_idx' = fan_idx + 1
                      /\ pc' = IF fan_idx = Len(FAN_CONFIG) THEN "sleep" ELSE "fans"
                      /\ IF call.raised # "none"
                         THEN /\ exc' = Exc(call.raised, 0, "", "")
                              /\ out' = "runtime_error"
                         ELSE /\ out' = IF fan_idx = Len(FAN_CONFIG)
                                        THEN "newline" ELSE call.printed
                              /\ UNCHANGED exc
    /\ UNCHANGED <<SPEED_CURVE, FAN_CONFIG, sensor_data, current_temps, loop_entered,
                   reads, sleeps, extraction, recovering, snapshot, temp, result>>

\* lines 172-177: one iteration of the for loop, and line 177 after the last one
FanStep ==
    /\ pc = "fans"
    /\ LET target == TargetSpeed(fan_idx)
       IN  IF target.raised # "none"
           THEN /\ CycleFails(Exc(target.raised, 0, "", ""))
                /\ UNCHANGED <<calls, ever_called, fan_idx>>
           ELSE \E rc \in ActuatorOutcomes :
                  LET call == set_fan_speed(FAN_CONFIG[fan_idx][1], target.value, rc)
                  IN  /\ calls' = Append(calls, call)
                      /\ ever_called' = TRUE
                      /\ IF call.raised # "none"
                         THEN /\ CycleFails(Exc(call.raised, 0, "", ""))
                              /\ UNCHANGED fan_idx
                         ELSE /\ fan_idx' = fan_idx + 1
                              /\ out' = IF fan_idx = Len(FAN_CONFIG)
                                        THEN "newline" ELSE call.printed
                              /\ pc' = IF fan_idx = Len(FAN_CONFIG) THEN "sleep" ELSE "fans"
                              /\ UNCHANGED exc
    /\ UNCHANGED <<SPEED_CURVE, FAN_CONFIG, sensor_data, current_temps, loop_entered,
                   reads, sleeps, extraction, recovering, snapshot, temp, result>>

\* the next iteration of the while loop begins
NextCycle ==
    /\ pc' = "cycle_read"
    /\ sleeps' = sleeps + 1
    /\ reads' = 0
    /\ calls' = << >>
    /\ fan_idx' = 0
    /\ exc' = NoExc
    /\ extraction' = "pending"
    /\ snapshot' = NoData

\* line 179 returning
SleepDone ==
    /\ pc = "sleep"
    /\ NextCycle
    /\ recovering' = FALSE
    /\ UNCHANGED <<SPEED_CURVE, FAN_CONFIG, sensor_data, current_temps, out,
                   ever_called, loop_entered, temp, result>>

\* line 186 returning
ErrSleepDone ==
    /\ pc = "err_sleep"
    /\ NextCycle
    /\ recovering' = TRUE
    /\ UNCHANGED <<SPEED_CURVE, FAN_CONFIG, sensor_data, current_temps, out,
                   ever_called, loop_entered, temp, result>>

\* KeyboardInterrupt inside the try of lines 156-159: `except Exception` lets it pass
InterruptStartup ==
    /\ pc \in {"start", "validate"}
    /\ exc' = Exc("KeyboardInterrupt", 0, "", "")
    /\ pc' = "uncaught"
    /\ UNCHANGED <<SPEED_CURVE, FAN_CONFIG, sensor_data, current_temps, fan_idx, out,
                   calls, ever_called, loop_entered, reads, sleeps, extraction, recovering,
                   snapshot, temp, result>>

\* mutant of InterruptInTry: the interrupt is honoured at the end of the cycle
\* only, the fans still to come are commanded first
InterruptFinishesCycle ==
    /\ pc \in {"cycle_read", "fans", "sleep"}
    /\ exc' = Exc("KeyboardInterrupt", 0, "", "")
    /\ out' = "terminated_msg"
    /\ pc' = "terminated"
    /\ IF pc = "fans"
       THEN /\ calls' = calls \o
                    [k \in 1..(Len(FAN_CONFIG) - fan_idx + 1) |->
                        set_fan_speed(FAN_CONFIG[fan_idx + k - 1][1],
                                      TargetSpeed(fan_idx + k - 1).value, "ok")]
            /\ fan_idx' = Len(FAN_CONFIG) + 1
            /\ ever_called' = TRUE
       ELSE UNCHANGED <<calls, fan_idx, ever_called>>
    /\ UNCHANGED <<SPEED_CURVE, FAN_CONFIG, sensor_data, current_temps,
                   loop_entered, reads, sleeps, extraction, recovering,
                   snapshot, temp, result>>

\* KeyboardInterrupt inside the try of lines 166-179: lines 181-183
InterruptInTry ==
    /\ pc \in {"cycle_read", "fans", "sleep"}
    /\ exc' = Exc("KeyboardInterrupt", 0, "", "")
    /\ out' = "terminated_msg"
    /\ pc' = "terminated"
    /\ UNCHANGED <<SPEED_CURVE, FAN_CONFIG, sensor_data, current_temps, fan_idx,
                   calls, ever_called, loop_entered, reads, sleeps, extraction, recovering,
                   snapshot, temp, result>>

\* KeyboardInterrupt inside the handler's time.sleep of line 186: no try encloses it
InterruptInHandler ==
    /\ pc = "err_sleep"
    /\ exc' = Exc("KeyboardInterrupt", 0, "", "")
    /\ pc' = "uncaught"
    /\ UNCHANGED <<SPEED_CURVE, FAN_CONFIG, sensor_data, current_temps, fan_idx, out,
                   calls, ever_called, loop_entered, reads, sleeps, extraction, recovering,
                   snapshot, temp, result>>

Next ==
    \/ StartupRead
    \/ StartupReadFails
    \/ Validate
    \/ CycleRead
    \/ CycleReadFails
    \/ FanStep
    \/ SleepDone
    \/ ErrSleepDone
    \/ InterruptStartup
    \/ InterruptInTry
    \/ InterruptInHandler

Spec == Init /\ [][Next]_vars

-----------------------------------------------------------------------------
(* The Curve Evaluator on its own: calculate_speed applied to drawn inputs *)

ExampleCurve == << <<40, 5>>, <<90, 60>>, <<95, 100>> >>

\* the orders in which the user configuration area can list the points of curve
Reorderings(curve) ==
    { [i \in 1..Len(curve) |-> curve[p[i]]] : p \in Permutations(1..Len(curve)) }

\* curves whose percentages are not monotonic in the temperature
PeakCurve   == << <<40, 10>>, <<60, 50>>, <<80, 30>> >>
ValleyCurve == << <<40, 50>>, <<60, 10>>, <<80, 30>> >>

CurveInputs ==
    Reorderings(ExampleCurve) \cup Reorderings(<< <<40, 5>>, <<50, 8>> >>)
        \cup {ShippedCurve, HighCurve, LowCurve, PeakCurve, ValleyCurve, << <<50, 8>> >>,
              [i \in 1..Len(ShippedCurve) |-> ShippedCurve[Len(ShippedCurve) + 1 - i]]}

InitCurve ==
    /\ SPEED_CURVE \in CurveInputs
    /\ temp \in 0..MaxTemp
    /\ result = NotEvaluated
    /\ FAN_CONFIG = ShippedFanConfig
    /\ pc = "start"
    /\ sensor_data = NoData
    /\ current_temps = << >>
    /\ fan_idx = 0
    /\ exc = NoExc
    /\ out = "none"
    /\ calls = << >>
    /\ ever_called = FALSE
    /\ loop_entered = FALSE
    /\ reads = 0
    /\ sleeps = 0
    /\ extraction = "pending"
    /\ recovering = FALSE
    /\ snapshot = NoData

\* a call calculate_speed(temp)
Evaluate ==
    /\ result' = calculate_speed(temp)
    /\ UNCHANGED <<SPEED_CURVE, FAN_CONFIG, pc, sensor_data, current_temps, fan_idx, exc,
                   out, calls, ever_called, loop_entered, reads, sleeps, extraction,
                   recovering, snapshot, temp>>

\* the caller takes another temperature
Sample ==
    /\ result # NotEvaluated
    /\ temp' \in 0..MaxTemp
    /\ result' = NotEvaluated
    /\ UNCHANGED <<SPEED_CURVE, FAN_CONFIG, pc, sensor_data, current_temps, fan_idx, exc,
                   out, calls, ever_called, loop_entered, reads, sleeps, extraction,
                   recovering, snapshot>>

NextCurve == Evaluate \/ Sample

SpecCurve == InitCurve /\ [][NextCurve]_vars

-----------------------------------------------------------------------------
(* The Temperature Extractor on its own: parse_temperatures applied to drawn snapshots *)

InitParse ==
    /\ sensor_data \in Snapshots
    /\ SPEED_CURVE = ShippedCurve
    /\ FAN_CONFIG = ShippedFanConfig
    /\ pc = "start"
    /\ current_temps = << >>
    /\ fan_idx = 0
    /\ exc = NoExc
    /\ out = "none"
    /\ calls = << >>
    /\ ever_called = FALSE
    /\ loop_entered = FALSE
    /\ reads = 0
    /\ sleeps = 0
    /\ extraction = "pending"
    /\ recovering = FALSE
    /\ snapshot = NoData
    /\ temp = 0
    /\ result = NotEvaluated

\* a call parse_temperatures(sensor_data)
Extract ==
    /\ LET parsed == parse_temperatures(sensor_data)
       IN  /\ exc' = parsed.raised
           /\ current_temps' = parsed.temps
           /\ extraction' = IF parsed.raised = NoExc THEN "ok" ELSE "failed"
    /\ UNCHANGED <<SPEED_CURVE, FAN_CONFIG, pc, sensor_data, fan_idx, out, calls,
                   ever_called, loop_entered, reads, sleeps, recovering, snapshot,
                   temp, result>>

NextParse == Extract

SpecParse == InitParse /\ [][NextParse]_vars

-----------------------------------------------------------------------------
(* Properties *)

ActuatorFailed(call) == call.rc \in {"fail_stderr", "fail_silent"}

\* the for loop of the current cycle is over
CycleOver == pc \in {"sleep", "err_sleep"}

\* set_fan_speed was invoked in the current cycle for the fan at position j
CalledFor(j) == \E k \in 1..Len(calls) : calls[k].fan = FAN_CONFIG[j][1]

\* the percentage line 175 computes for the fan at position j is one set_fan_speed accepts
Acceptable(j) ==
    /\ TargetSpeed(j).raised = "none"
    /\ 0 <= TargetSpeed(j).value /\ TargetSpeed(j).value <= 100

\* C1: when the cycle is over, every fan that follows in FAN_CONFIG a fan whose
\* actuation command failed has had set_fan_speed invoked for it in that cycle
C1_FansAfterFailedActuationCalled ==
    CycleOver =>
        \A i \in 1..Len(calls) :
            ActuatorFailed(calls[i]) =>
                \A j \in (i + 1)..Len(FAN_CONFIG) : CalledFor(j)

\* C2: an invocation of set_fan_speed whose actuation command failed printed the
\* failure report and returned without raising an exception
C2_FailureReportedAndReturns ==
    \A i \in 1..Len(calls) :
        ActuatorFailed(calls[i]) =>
            /\ calls[i].printed = "fail_report"
            /\ calls[i].raised = "none"

\* every fan of FAN_CONFIG tracks mapped sensors only, and sensor_data holds the
\* whole path of every mapped sensor
StartupValid ==
    /\ \A i \in 1..Len(FAN_CONFIG) :
          \A k \in 1..Len(FAN_CONFIG[i][2]) : FAN_CONFIG[i][2][k] \in SensorNames
    /\ \A s \in SensorNames :
          /\ Mapping(s)[1] \in DOMAIN sensor_data
          /\ Mapping(s)[2] \in DOMAIN sensor_data[Mapping(s)[1]]
          /\ Mapping(s)[3] \in DOMAIN sensor_data[Mapping(s)[1]][Mapping(s)[2]]

\* C3: after a failed startup validation main_loop has returned without a loop
\* iteration and without any invocation of set_fan_speed, and the loop is entered
\* (and set_fan_speed invoked) only after a validation that succeeded
C3_NoLoopWithoutValidation ==
    /\ pc = "returned_invalid" => ~loop_entered /\ ~ever_called /\ calls = << >>
    /\ (pc \in {"start", "validate"} \/ ~StartupValid) => ~loop_entered /\ ~ever_called
    /\ pc \in {"cycle_read", "fans", "sleep", "err_sleep", "terminated"} => StartupValid

\* C3 witness: validation failed on the live sample and main_loop returned
C3_Witness ==
    /\ pc = "returned_invalid"
    /\ exc.type = "ConfigError"
    /\ sensor_data # NoData
    /\ FAN_CONFIG = ShippedFanConfig

\* C4: in a cycle whose sensor read or extraction failed set_fan_speed is not
\* invoked for any fan
C4_NoActuationAfterFailedExtraction ==
    extraction = "failed" => calls = << >>

\* C4 witness: the extraction failed in a cycle that follows one which actuated
\* the fans, so current_temps still holds readings
C4_Witness ==
    /\ pc = "err_sleep"
    /\ extraction = "failed"
    /\ exc.type = "ConfigError"
    /\ ever_called
    /\ DOMAIN current_temps = SensorNames

\* C5: an error raised in a cycle is reported and leads to the handler's sleep;
\* that sleep is followed by the next cycle only (one sleep, no read yet, no
\* actuation yet), whose successful extraction starts the for loop at the first
\* fan; and RUNNING is left only by a KeyboardInterrupt
C5_ErrorsAreSurvived ==
    [][ /\ (pc \in {"cycle_read", "fans"} /\ exc'.type \notin {"none", "KeyboardInterrupt"})
            => (pc' = "err_sleep" /\ out' = "runtime_error")
        /\ (pc = "err_sleep" /\ exc'.type # "KeyboardInterrupt")
            => (pc' = "cycle_read" /\ sleeps' = 1 /\ reads' = 0 /\ calls' = << >>
                /\ extraction' = "pending" /\ recovering')
        /\ (pc = "cycle_read" /\ extraction' = "ok")
            => (reads' = 1 /\ pc' = "fans" /\ fan_idx' = 1
                /\ DOMAIN current_temps' = SensorNames)
        /\ (loop_entered /\ pc \notin Terminal /\ pc' \in Terminal)
            => exc'.type = "KeyboardInterrupt"
      ]_vars

\* C5 witness: the cycle after a failed one has actuated a fan
C5_Witness ==
    /\ recovering
    /\ pc = "fans"
    /\ calls # << >>
    /\ calls[1].rc = "ok"

\* C6: a KeyboardInterrupt delivered while RUNNING ends main_loop by the break of
\* line 183, the confirmation message printed
C6_InterruptEndsLoopCleanly ==
    (loop_entered /\ exc.type = "KeyboardInterrupt")
        => (pc = "terminated" /\ out = "terminated_msg")

\* C7: the actuation command is run with percentages of [0,100] only and carries
\* the fan and the percentage set_fan_speed was given, unchanged; a percentage
\* outside [0,100] raises ValueError with no command built or run
C7_OutOfRangeNeverSent ==
    \A i \in 1..Len(calls) :
        /\ calls[i].cmd # NoCmd =>
              /\ 0 <= calls[i].pct /\ calls[i].pct <= 100
              /\ HexValue(calls[i].cmd.speed) = calls[i].pct
              /\ HexValue(calls[i].cmd.fan_id) = calls[i].fan
        /\ ~(0 <= calls[i].pct /\ calls[i].pct <= 100) =>
              /\ calls[i].raised = "ValueError"
              /\ calls[i].cmd = NoCmd
              /\ calls[i].rc = "not_run"

\* C7 witness: set_fan_speed was given 120 percent
C7_Witness ==
    \E i \in 1..Len(calls) : calls[i].pct = 120 /\ calls[i].raised = "ValueError"

\* C8 as stated: when the cycle is over, every fan that follows in FAN_CONFIG a fan
\* whose percentage was rejected has had set_fan_speed invoked for it in that cycle
C8_FansAfterRejectionCalled ==
    CycleOver =>
        \A i \in 1..Len(calls) :
            calls[i].raised = "ValueError" =>
                \A j \in (i + 1)..Len(FAN_CONFIG) : CalledFor(j)

\* C8 amended: a rejected percentage is caught by the loop-level handler, not per
\* fan: the rejected invocation is the last one of its cycle, the error is
\* reported and the loop is in the handler's sleep (or interrupted out of it)
C8_RejectionEndsTheCycle ==
    \A i \in 1..Len(calls) :
        calls[i].raised = "ValueError" =>
            /\ i = Len(calls)
            /\ \A j \in (i + 1)..Len(FAN_CONFIG) : ~CalledFor(j)
            /\ out = "runtime_error"
            /\ pc \in {"err_sleep", "uncaught"}
            /\ pc = "err_sleep" => exc.type = "ValueError"

\* C8 witness: a fan was rejected and a fan after it, whose percentage
\* set_fan_speed would accept, was left out
C8_Witness ==
    /\ pc = "err_sleep"
    /\ exc.type = "ValueError"
    /\ \E j \in (Len(calls) + 1)..Len(FAN_CONFIG) : Acceptable(j) /\ ~CalledFor(j)

\* C9: the i-th invocation of a cycle is for the i-th fan of FAN_CONFIG and passes
\* calculate_speed of a current reading of one of that fan's sensors that no
\* other of that fan's sensors exceeds; under the shipped curve, readings 30 and
\* 90 command 60
C9_SpeedOfHottestTrackedSensor ==
    \A i \in 1..Len(calls) :
        LET sensors == FAN_CONFIG[i][2]
            tracked == {sensors[k] : k \in 1..Len(sensors)}
        IN  /\ calls[i].fan = FAN_CONFIG[i][1]
            /\ \E s \in tracked :
                  /\ \A u \in tracked : current_temps[u] <= current_temps[s]
                  /\ calls[i].pct = calculate_speed(current_temps[s]).value
            /\ (SPEED_CURVE = ShippedCurve
                  /\ {current_temps[u] : u \in tracked} = {30, 90}) => calls[i].pct = 60

\* C9 witness: fan 2 tracks gpu0 at 30 and gpu1 at 90 and was commanded
C9_Witness ==
    /\ Len(calls) >= 2
    /\ SPEED_CURVE = ShippedCurve
    /\ current_temps["gpu0"] = 30
    /\ current_temps["gpu1"] = 90
    /\ calls[2].fan = 2

\* the control points of the curve
Points == {SPEED_CURVE[i] : i \in 1..Len(SPEED_CURVE)}

\* C10: at or below the lowest control-point temperature calculate_speed returns
\* that point's percentage, at or above the highest one the highest point's,
\* whatever the order of SPEED_CURVE
C10_ClampedAtTheEnds ==
    (result # NotEvaluated /\ SPEED_CURVE # << >>) =>
        /\ result.raised = "none"
        /\ \A p \in Points :
              /\ ((\A q \in Points : p[1] <= q[1]) /\ temp <= p[1]) => result.value = p[2]
              /\ ((\A q \in Points : p[1] >= q[1]) /\ temp >= p[1]) => result.value = p[2]

\* C10 witness: a curve listed out of order, evaluated above its highest point
C10_Witness ==
    /\ result # NotEvaluated
    /\ Len(SPEED_CURVE) = 3
    /\ SPEED_CURVE[1][1] > SPEED_CURVE[3][1]
    /\ \A q \in Points : temp >= q[1]

\* the pairs of adjacent control points: no control point lies strictly between
AdjacentPairs ==
    { pq \in Points \X Points :
        /\ pq[1][1] < pq[2][1]
        /\ \A r \in Points : ~(pq[1][1] < r[1] /\ r[1] < pq[2][1]) }

\* v is the integer nearest to n / d (d > 0), the even one of the two on a tie
NearestEven(v, n, d) ==
    /\ 2 * (v * d - n) <= d
    /\ 2 * (n - v * d) <= d
    /\ (2 * (v * d - n) = d \/ 2 * (n - v * d) = d) => v % 2 = 0

\* C11: strictly between the lowest and the highest control-point temperature
\* calculate_speed returns the linear interpolation between the adjacent control
\* points that bracket the temperature, rounded to the nearest integer and to
\* the even one on a tie (45 on the curve (40,5),(50,8) gives 6); at an interior
\* control point it returns that point's percentage
C11_InterpolatesHalfEven ==
    (result # NotEvaluated /\ SPEED_CURVE # << >>) =>
        /\ \A pq \in AdjacentPairs :
              (/\ pq[1][1] <= temp /\ temp <= pq[2][1]
               /\ \E lo \in Points : lo[1] < temp
               /\ \E hi \in Points : temp < hi[1])
              => /\ result.raised = "none"
                 /\ NearestEven(result.value,
                                pq[1][2] * (pq[2][1] - pq[1][1])
                                    + (temp - pq[1][1]) * (pq[2][2] - pq[1][2]),
                                pq[2][1] - pq[1][1])
        /\ \A p \in Points : temp = p[1] => result.value = p[2]
        /\ (Points = {<<40, 5>>, <<50, 8>>} /\ temp = 45) => result.value = 6

\* C11 witness: the tie of the example, with the curve listed highest point first
C11_Witness ==
    /\ SPEED_CURVE = << <<50, 8>>, <<40, 5>> >>
    /\ temp = 45
    /\ result = Returned(6)

\* the percentages of the control points
Percentages == {p[2] : p \in Points}

\* C12: over a non-empty curve calculate_speed returns a value between the
\* smallest and the largest control-point percentage, so that set_fan_speed
\* accepts it whenever every control-point percentage lies in [0,100]
C12_WithinTheCurveRange ==
    (result # NotEvaluated /\ SPEED_CURVE # << >>) =>
        /\ result.raised = "none"
        /\ \E lo \in Percentages : lo <= result.value
        /\ \E hi \in Percentages : result.value <= hi
        /\ (\A s \in Percentages : 0 <= s /\ s <= 100) =>
              \A fan \in 1..Len(ShippedFanConfig), rc \in ActuatorOutcomes :
                  set_fan_speed(fan, result.value, rc).raised # "ValueError"

\* C12 witness: an interpolation next to the largest percentage of a curve that
\* is not monotonic
C12_Witness ==
    /\ SPEED_CURVE = PeakCurve
    /\ temp = 61
    /\ result = Returned(49)

\* the sensors the fan at position i of FAN_CONFIG tracks
SensorsOfFan(i) == {FAN_CONFIG[i][2][k] : k \in 1..Len(FAN_CONFIG[i][2])}

\* some fan of FAN_CONFIG tracks a name that SENSOR_MAPPING does not define
HasUndefinedSensor == \E i \in 1..Len(FAN_CONFIG) : ~(SensorsOfFan(i) \subseteq SensorNames)

\* data holds the chip, the feature group and the field of sensor s
PathPresent(data, s) ==
    /\ Mapping(s)[1] \in DOMAIN data
    /\ Mapping(s)[2] \in DOMAIN data[Mapping(s)[1]]
    /\ Mapping(s)[3] \in DOMAIN data[Mapping(s)[1]][Mapping(s)[2]]

Complete(data) == \A s \in SensorNames : PathPresent(data, s)

\* C13 as stated: with an undefined sensor name in FAN_CONFIG the Sensor Reader
\* is not invoked at all
C13_NoReadWithUndefinedSensor ==
    HasUndefinedSensor => reads = 0

\* C13 amended: with an undefined sensor name in FAN_CONFIG main_loop returns
\* after exactly one invocation of the Sensor Reader, the loop never entered;
\* when that read succeeded the error is the ConfigError of the undefined name
\* and its fan, whatever the snapshot holds
C13_NameCheckAfterTheRead ==
    HasUndefinedSensor =>
        /\ ~loop_entered
        /\ pc = "returned_invalid" =>
              /\ reads = 1
              /\ exc.type \in {"RuntimeError", "FileNotFoundError", "ConfigError"}
              /\ exc.type = "ConfigError" =>
                    /\ exc.sensor \notin SensorNames
                    /\ \E i \in 1..Len(FAN_CONFIG) :
                          FAN_CONFIG[i][1] = exc.fan /\ exc.sensor \in SensorsOfFan(i)
                    /\ exc.missing = ""

\* C13 witness: the undefined name was reported although the snapshot that had
\* been read lacks a sensor path
C13_Witness ==
    /\ HasUndefinedSensor
    /\ pc = "returned_invalid"
    /\ exc = Exc("ConfigError", 6, "gpu2", "")
    /\ reads = 1
    /\ ~Complete(sensor_data)

\* C14: a ConfigError of the startup validation about a sensor that some fan
\* tracks identifies a fan that tracks it, and the sensor
C14_ConfigErrorNamesFanAndSensor ==
    (/\ pc = "returned_invalid"
     /\ exc.type = "ConfigError"
     /\ \E i \in 1..Len(FAN_CONFIG) : exc.sensor \in SensorsOfFan(i))
    => \E i \in 1..Len(FAN_CONFIG) :
          FAN_CONFIG[i][1] = exc.fan /\ exc.sensor \in SensorsOfFan(i)

\* sensor s comes before sensor u in SENSOR_MAPPING
MappedBefore(s, u) ==
    \E i, j \in 1..Len(SENSOR_MAPPING) :
        i < j /\ SENSOR_MAPPING[i][1] = s /\ SENSOR_MAPPING[j][1] = u

\* C15: on a snapshot that lacks a path level of a mapped sensor
\* parse_temperatures raises ConfigError naming the first such sensor of
\* SENSOR_MAPPING and the level missing: the chip when the chip key is absent,
\* the feature group when the chip is there without the group, the field when
\* chip and group are there without the field
C15_ErrorNamesSensorAndLevel ==
    (extraction # "pending" /\ ~Complete(sensor_data)) =>
        /\ extraction = "failed"
        /\ exc.type = "ConfigError"
        /\ exc.sensor \in SensorNames
        /\ ~PathPresent(sensor_data, exc.sensor)
        /\ \A s \in SensorNames : MappedBefore(s, exc.sensor) => PathPresent(sensor_data, s)
        /\ LET chip    == Mapping(exc.sensor)[1]
               feature == Mapping(exc.sensor)[2]
           IN  /\ chip \notin DOMAIN sensor_data => exc.missing = "chip"
               /\ (chip \in DOMAIN sensor_data /\ feature \notin DOMAIN sensor_data[chip])
                    => exc.missing = "feature"
               /\ (chip \in DOMAIN sensor_data /\ feature \in DOMAIN sensor_data[chip])
                    => exc.missing = "field"

\* C15 witness: the chip of gpu1 is there without its feature group
C15_Witness ==
    /\ extraction = "failed"
    /\ exc = Exc("ConfigError", 0, "gpu1", "feature")
    /\ Mapping("gpu1")[1] \in DOMAIN sensor_data

\* C16: on a snapshot that holds every path of SENSOR_MAPPING parse_temperatures
\* returns a sample whose keys are the keys of SENSOR_MAPPING and whose values
\* are the readings at the paths
C16_SampleMatchesSnapshot ==
    (extraction # "pending" /\ Complete(sensor_data)) =>
        /\ extraction = "ok"
        /\ exc = NoExc
        /\ DOMAIN current_temps = SensorNames
        /\ \A s \in SensorNames :
              current_temps[s] = sensor_data[Mapping(s)[1]][Mapping(s)[2]][Mapping(s)[3]]

\* C16 witness: a sample in which the two GPUs, whose feature group and field
\* have the same names, read differently
C16_Witness ==
    /\ extraction = "ok"
    /\ current_temps["gpu0"] = 30
    /\ current_temps["gpu1"] = 90
    /\ current_temps["nvme1"] = IdleTemp

\* C17: with an empty SPEED_CURVE the control loop is never entered and the
\* curve never fails at its evaluation
C17_EmptyCurveFailsAtStartup ==
    SPEED_CURVE = << >> => (~loop_entered /\ exc.type # "IndexError")

\* C18 as stated: when the loop has terminated on an interrupt, the last cycle
\* has commanded none or every fan
C18_NoPartialCycleOnInterrupt ==
    pc = "terminated" => (Len(calls) = 0 \/ Len(calls) = Len(FAN_CONFIG))

\* C18 amended: a KeyboardInterrupt that arrives inside the try of the loop body
\* ends the loop at once, wherever the cycle stands: nothing more is commanded,
\* and the fans commanded so far are the first ones of FAN_CONFIG, in order
C18_InterruptStopsAtOnce ==
    [][ (exc'.type = "KeyboardInterrupt" /\ pc \in {"cycle_read", "fans", "sleep"}) =>
            /\ pc' = "terminated"
            /\ out' = "terminated_msg"
            /\ calls' = calls
            /\ fan_idx' = fan_idx
            /\ ever_called' = ever_called
            /\ Len(calls') <= Len(FAN_CONFIG)
            /\ \A i \in 1..Len(calls') :
                  calls'[i].fan = FAN_CONFIG[i][1] /\ calls'[i].raised = "none"
      ]_vars

\* C18 witness: the loop has terminated with some but not all fans commanded
C18_Witness ==
    /\ pc = "terminated"
    /\ 0 < Len(calls)
    /\ Len(calls) < Len(FAN_CONFIG)

\* the reading of sensor s in data
ReadingIn(data, s) == data[Mapping(s)[1]][Mapping(s)[2]][Mapping(s)[3]]

\* C19: the sensors are read once per cycle and before any actuation of the
\* cycle, and every percentage passed to set_fan_speed is calculate_speed of the
\* hottest tracked sensor as the snapshot of that cycle reads it
C19_CommandsFromThisCyclesSnapshot ==
    /\ loop_entered => reads <= 1
    /\ calls # << >> =>
          /\ reads = 1
          /\ extraction = "ok"
          /\ Complete(snapshot)
          /\ \A i \in 1..Len(calls) :
                \E s \in SensorsOfFan(i) :
                    /\ \A u \in SensorsOfFan(i) :
                          ReadingIn(snapshot, u) <= ReadingIn(snapshot, s)
                    /\ calls[i].pct = calculate_speed(ReadingIn(snapshot, s)).value

\* C19 witness: a fan was commanded in a cycle that follows a failed one and
\* whose snapshot differs from the one of the startup validation
C19_Witness ==
    /\ calls # << >>
    /\ recovering
    /\ snapshot # sensor_data
    /\ ReadingIn(snapshot, "gpu0") # ReadingIn(sensor_data, "gpu0")

\* C20: a startup snapshot that lacks the path of any mapped sensor keeps the
\* loop from being entered, and a cycle whose snapshot lacks one actuates no fan
C20_ExtractionIsAllOrNothing ==
    /\ ~Complete(sensor_data) => (~loop_entered /\ ~ever_called)
    /\ (snapshot # NoData /\ ~Complete(snapshot)) =>
          /\ calls = << >>
          /\ extraction = "failed"
          /\ pc \in {"err_sleep", "uncaught"}

\* C20 witness: a cycle failed on a snapshot that lacks nvme1 alone, after a
\* cycle that had actuated the fans
C20_Witness ==
    /\ pc = "err_sleep"
    /\ ever_called
    /\ snapshot # NoData
    /\ ~PathPresent(snapshot, "nvme1")
    /\ \A s \in SensorNames \ {"nvme1"} : PathPresent(snapshot, s)
    /\ exc.sensor = "nvme1"

====
